---- MODULE Spec2Model ----
(***************************************************************************)
(* A model of `jj split` (cli/src/commands/split.rs, cmd_split) over an   *)
(* arena of immutable commits, a persisted View and one transaction.      *)
(* The library operations cmd_split calls (tree merge, commit rewriting,  *)
(* the descendant cascade, the transaction) are modelled from spec.md.    *)
(***************************************************************************)
EXTENDS Integers, Sequences, FiniteSets, TLC

\* Number of commits, besides the root, in the repository before the split.
NumCommits == 3

\* The root commit: no parents, the empty tree.
RootId == 0

\* File paths of a tree and the plain file contents (0 stands for "absent").
Paths == {"x", "y"}
PlainVals == 0 .. 2

----------------------------------------------------------------------------
(* Tree values and the three-way merge (spec.md section 3, "Tree").        *)

\* A resolved value v, as the signed multiset {v: +1}.
Ind(v) == [p \in PlainVals |-> IF p = v THEN 1 ELSE 0]

IsResolved(val) == \E v \in PlainVals : val = Ind(v)

EmptyTree == [p \in Paths |-> Ind(0)]

\* One path of merge: adds self and other, removes base, nothing resolved.
RawMergeValues(self, base, other) ==
    [p \in PlainVals |-> self[p] - base[p] + other[p]]

\* One side differs from base: that side wins; both sides made the same
\* change: that value wins; otherwise the terms stay, a recorded conflict.
ResolveValue(c) ==
    LET nz == {p \in PlainVals : c[p] # 0}
    IN  IF Cardinality(nz) = 1
          THEN Ind(CHOOSE p \in nz : TRUE)
          ELSE IF /\ Cardinality(nz) = 2
                  /\ \E p \in nz : c[p] = 2
                  /\ \E q \in nz : c[q] = -1
                 THEN Ind(CHOOSE p \in nz : c[p] = 2)
                 ELSE c

RawTreeMerge(self, base, other) ==
    [p \in Paths |-> RawMergeValues(self[p], base[p], other[p])]

ResolveTree(t) == [p \in Paths |-> ResolveValue(t[p])]

\* self.merge(base, other): the receiver and the LAST argument are the two
\* sides, the FIRST argument is the merge base (split.rs:165-168).
TreeMerge(self, base, other) == ResolveTree(RawTreeMerge(self, base, other))

HasConflict(t) == \E p \in Paths : ~IsResolved(t[p])

----------------------------------------------------------------------------
(* The commit graph (spec.md section 3, "Commit").  C is the store: a      *)
(* function from commit id to commit; parents always have smaller ids.     *)

Range(s) == {s[i] : i \in 1 .. Len(s)}

ParentSet(C, c) == Range(C[c].parents)

RECURSIVE Ancestors(_, _)
\* c and everything reachable from it along parent edges.
Ancestors(C, c) == {c} \cup UNION {Ancestors(C, p) : p \in ParentSet(C, c)}

AncestorsOfSet(C, S) == UNION {Ancestors(C, c) : c \in S}

\* The commits that have t as a proper ancestor.
Descendants(C, t) == {d \in DOMAIN C : d # t /\ t \in Ancestors(C, d)}

\* The maximal elements of an ancestor-closed set.
HeadsOf(C, S) == {c \in S : \A d \in S : d = c \/ c \notin Ancestors(C, d)}

RECURSIVE SortedSeq(_)
\* The ids of S in ascending order: a topological order of the graph.
SortedSeq(S) ==
    IF S = {} THEN <<>>
    ELSE LET m == CHOOSE x \in S : \A y \in S : x <= y
         IN  <<m>> \o SortedSeq(S \ {m})

RECURSIVE MergeCommitTreesRaw(_, _)
\* The merge of the trees of the commits ps, each merged in against the
\* merge of its common ancestors with the ones before it.
MergeCommitTreesRaw(C, ps) ==
    IF ps = <<>> THEN EmptyTree
    ELSE IF Len(ps) = 1 THEN C[ps[1]].tree
    ELSE LET n      == Len(ps)
             prefix == SubSeq(ps, 1, n - 1)
             common == AncestorsOfSet(C, Range(prefix)) \cap Ancestors(C, ps[n])
             base   == MergeCommitTreesRaw(C, SortedSeq(HeadsOf(C, common)))
         IN  RawTreeMerge(MergeCommitTreesRaw(C, prefix), base, C[ps[n]].tree)

MergeCommitTrees(C, ps) == ResolveTree(MergeCommitTreesRaw(C, ps))

\* commit.parent_tree(repo): the tree implied by the commit's parents.
ParentTree(C, c) == MergeCommitTrees(C, C[c].parents)

\* commit.is_empty(repo): the commit changes nothing.
IsEmpty(C, c) == C[c].tree = ParentTree(C, c)

----------------------------------------------------------------------------
(* The repositories the split may start from.                              *)

\* The parent lists commit i may have: one older commit, or two older
\* commits other than the root, in id order.
ParentChoices(i) ==
    {<<p>> : p \in 0 .. i - 1}
      \cup {pq \in (1 .. i - 1) \X (1 .. i - 1) : pq[1] < pq[2]}

RECURSIVE DagsUpTo(_)
\* The parent lists of commits 1..i, in every way.
DagsUpTo(i) ==
    IF i = 0 THEN {<<>>}
    ELSE {Append(d, ps) : d \in DagsUpTo(i - 1), ps \in ParentChoices(i)}

Dags == DagsUpTo(NumCommits)

\* What a commit changes relative to its parent tree.
Kinds == {"none", "x", "xy"}

ChangedPaths(kind) ==
    CASE kind = "none" -> {}
      [] kind = "x"    -> {"x"}
      [] kind = "y"    -> {"y"}
      [] kind = "xy"   -> {"x", "y"}

DefaultKind(i) == IF i % 2 = 1 THEN "x" ELSE "y"

\* The content commit i writes at a path it changes: never the old content.
NewVal(i, old) ==
    LET v == ((i \div 2) % 2) + 1
    IN  IF old = Ind(v) THEN 3 - v ELSE v

ApplyChange(i, pt, kind) ==
    [p \in Paths |-> IF p \in ChangedPaths(kind) THEN Ind(NewVal(i, pt[p])) ELSE pt[p]]

RootCommit == [parents |-> <<>>, tree |-> EmptyTree, change_id |-> RootId, description |-> ""]

RECURSIVE BuildCommits(_, _, _, _)
\* The store holding the root and commits 1..i of dag d; commit t changes
\* the paths of kind k, the others those of their default kind.
BuildCommits(d, t, k, i) ==
    IF i = 0 THEN [c \in {RootId} |-> RootCommit]
    ELSE LET C    == BuildCommits(d, t, k, i - 1)
             pt   == MergeCommitTrees(C, d[i])
             kind == IF i = t THEN k ELSE DefaultKind(i)
             new  == [parents     |-> d[i],
                      tree        |-> ApplyChange(i, pt, kind),
                      change_id   |-> i,
                      description |-> IF i % 2 = 1 THEN "desc" ELSE ""]
         IN  [c \in 0 .. i |-> IF c = i THEN new ELSE C[c]]

\* The local variables of cmd_split hold this before they are assigned.
NoCommit == -1

WorkspaceIds == 1 .. NumCommits
BookmarkNames == 1 .. NumCommits

\* The View of the repository before the split: every commit is visible,
\* workspace w has commit w checked out and bookmark b points at commit b.
InitialView(C) ==
    [heads         |-> HeadsOf(C, 1 .. NumCommits \cup {RootId}),
     wc_commit_ids |-> [w \in WorkspaceIds |-> w],
     bookmarks     |-> [b \in BookmarkNames |-> b]]

\* The immutable_heads() policies: nothing but the root, or one commit.
ImmutableChoices == {{}} \cup {{h} : h \in 1 .. NumCommits}

----------------------------------------------------------------------------
VARIABLES
    commits,            \* the object store: commit id -> commit
    view,               \* the persisted View of the repository
    immutable_heads,    \* the immutability policy
    args,               \* SplitArgs: revision, parallel
    pc,                 \* the orchestrator's state (spec.md section 4.5)
    result,             \* what cmd_split returned
    warnings,           \* the warnings written to the ui
    prompts,            \* the description-editor sessions, in order
    tx_started,         \* start_transaction() has been called
    tx_view,            \* the transaction's working copy of the View
    parent_mapping,     \* the transaction's rewrite records: old -> new ids
    target_commit, end_tree, base_tree, selected_tree,
    first_commit, second_commit,
    legacy_bookmark_behavior, num_rebased,
    to_visit,           \* the cascade's commits still to rebase
    visited             \* the commits the cascade handed to the callback

vars == <<commits, view, immutable_heads, args, pc, result, warnings, prompts,
          tx_started, tx_view, parent_mapping, target_commit, end_tree,
          base_tree, selected_tree, first_commit, second_commit,
          legacy_bookmark_behavior, num_rebased, to_visit, visited>>

locals == <<target_commit, end_tree, base_tree, selected_tree, first_commit,
            second_commit, legacy_bookmark_behavior, num_rebased>>

NoMapping == [k \in {} |-> <<>>]

----------------------------------------------------------------------------
(* The workspace on disk, as `jj git colocate` sees it (colocate.rs).      *)

VARIABLES
    fs,                 \* the files and directories of the workspace
    fs0,                \* the workspace before the first command
    colocate_args,      \* GitColocateArgs: enable, disable
    colocate_pc,        \* where cmd_git_colocate is
    is_colocated,       \* is_colocated_git_workspace() of the loaded repo
    colocate_result,    \* what the last cmd_git_colocate returned
    status,             \* what it wrote to ui.status()
    history             \* the commands run so far, with their results

colocation == <<fs, fs0, colocate_args, colocate_pc, is_colocated,
                colocate_result, status, history>>

\* How many commands are run on one workspace.
MaxCommands == 3

\* The entries of a git directory: a file, a directory and a file in it.
GitEntries == {"HEAD", "refs", "refs/heads"}

IsDirEntry(p) == p = "refs"

\* The directory an entry is in; "" is the git directory itself.
ParentEntry(p) == IF p = "refs/heads" THEN "refs" ELSE ""

\* A path that does not exist, and a directory with its entries.
NoDir == [exists |-> FALSE, entries |-> {}]
Dir(entries) == [exists |-> TRUE, entries |-> entries]

\* A git repository can be opened at a directory that holds all its entries.
IsGitRepo(d) == d.exists /\ GitEntries \subseteq d.entries

\* A file that does not exist, and one a failed write left empty.
NoFile == "<no file>"
Truncated == ""

\* colocate.rs:127, 132, 238: the contents the command writes.
JjGitignoreContent == "/*\n"
GitTargetColocated == "../../../.git"
GitTargetEmbedded == "git"

\* A workspace made by `jj git init`: the git repository is bare, in the
\* store, and .jj/.gitignore is absent unless the user wrote one.
RegularLayout(gitignore) ==
    [dot_git         |-> NoDir,
     git_store       |-> Dir(GitEntries),
     git_target      |-> GitTargetEmbedded,
     jj_gitignore    |-> gitignore,
     core_bare       |-> TRUE,
     jj_repo_is_file |-> FALSE,
     git_backend     |-> TRUE]

\* A workspace made by `jj git init --colocate`.
ColocatedLayout(gitignore) ==
    [dot_git         |-> Dir(GitEntries),
     git_store       |-> NoDir,
     git_target      |-> GitTargetColocated,
     jj_gitignore    |-> gitignore,
     core_bare       |-> FALSE,
     jj_repo_is_file |-> FALSE,
     git_backend     |-> TRUE]

ConsistentLayouts ==
    {RegularLayout(g) : g \in {NoFile, "user\n"}}
        \cup {ColocatedLayout(g) : g \in {JjGitignoreContent, NoFile}}

\* The other workspaces the command can be run in: one with a directory of
\* the user's at .git, a co-located one with a directory left at
\* .jj/repo/store/git, a secondary workspace (.jj/repo is a file), and one
\* whose store is not git.
OtherLayouts ==
    {[RegularLayout(NoFile) EXCEPT !.dot_git = Dir({"dummy"})],
     [ColocatedLayout(JjGitignoreContent) EXCEPT !.git_store = Dir({"dummy"})],
     [RegularLayout(NoFile) EXCEPT !.git_store = NoDir, !.git_target = NoFile,
                                   !.jj_repo_is_file = TRUE],
     [RegularLayout(NoFile) EXCEPT !.git_store = NoDir, !.git_target = NoFile,
                                   !.git_backend = FALSE]}

InitialLayouts == ConsistentLayouts \cup OtherLayouts

\* The directory the git_target file of the store names.
GitTargetDir(f) ==
    CASE f.git_target = GitTargetEmbedded  -> f.git_store
      [] f.git_target = GitTargetColocated -> f.dot_git
      [] OTHER                             -> NoDir

\* command.workspace_helper(ui): the workspace loads when its store does; a
\* git store needs the repository its git_target names.
WorkspaceLoads(f) ==
    f.jj_repo_is_file \/ ~f.git_backend \/ IsGitRepo(GitTargetDir(f))

\* git_util::is_colocated_git_workspace: the store's git repository is
\* the .git of the workspace root and has a working tree (it is not bare).
IsColocatedGitWorkspace(f) ==
    /\ f.git_backend
    /\ ~f.jj_repo_is_file
    /\ f.git_target = GitTargetColocated
    /\ IsGitRepo(f.dot_git)
    /\ ~f.core_bare

\* No command has been run on workspace f.
ColocateStart(f) ==
    /\ fs = f
    /\ fs0 = f
    /\ colocate_args = [enable |-> FALSE, disable |-> FALSE]
    /\ colocate_pc = "idle"
    /\ is_colocated = FALSE
    /\ colocate_result = "none"
    /\ status = "none"
    /\ history = <<>>

\* The repositories and the revision to split: every dag, every revision of
\* it, every kind of change in that revision.
InitialRepos ==
    {[commits |-> BuildCommits(d, t, k, NumCommits), revision |-> t] :
        d \in Dags, t \in 0 .. NumCommits, k \in Kinds}

\* cmd_split is entered on repository repo with the arguments given.
SplitStart(repo, par, imm) ==
    /\ commits = repo.commits
    /\ view = InitialView(repo.commits)
    /\ immutable_heads = imm
    /\ args = [revision |-> repo.revision, parallel |-> par]
    /\ pc = "ResolveTarget"
    /\ result = "none"
    /\ warnings = {}
    /\ prompts = <<>>
    /\ tx_started = FALSE
    /\ tx_view = InitialView(repo.commits)
    /\ parent_mapping = NoMapping
    /\ target_commit = NoCommit
    /\ end_tree = EmptyTree
    /\ base_tree = EmptyTree
    /\ selected_tree = EmptyTree
    /\ first_commit = NoCommit
    /\ second_commit = NoCommit
    /\ legacy_bookmark_behavior = FALSE
    /\ num_rebased = 0
    /\ to_visit = <<>>
    /\ visited = <<>>

Init ==
    \E repo \in InitialRepos, par \in BOOLEAN, imm \in ImmutableChoices :
        /\ SplitStart(repo, par, imm)
        /\ ColocateStart(RegularLayout(NoFile))

----------------------------------------------------------------------------
(* The library operations cmd_split calls.                                 *)

\* The commits the immutability policy protects: the heads' ancestors.
ImmutableSet(C, heads) == AncestorsOfSet(C, heads) \cup {RootId}

\* check_rewritable(ids): no id is immutable.
CheckRewritable(C, heads, ids) == ids \cap ImmutableSet(C, heads) = {}

NextId(C) == Cardinality(DOMAIN C)

\* A change id no commit of the store carries.
NewChangeId(C) ==
    1 + (CHOOSE m \in {C[c].change_id : c \in DOMAIN C} :
            \A c \in DOMAIN C : C[c].change_id <= m)

\* The store with commit rec written under a new id.
WriteToStore(C, rec) ==
    [c \in DOMAIN C \cup {NextId(C)} |-> IF c = NextId(C) THEN rec ELSE C[c]]

\* add_head: id becomes visible; heads that are its ancestors stop being heads.
AddHead(C, v, id) ==
    [v EXCEPT !.heads = HeadsOf(C, AncestorsOfSet(C, v.heads \cup {id}))]

\* set_rewritten_commit(old, new): the rewrite record old -> [new].
SetRewrittenCommit(pm, old, new) ==
    [k \in DOMAIN pm \cup {old} |-> IF k = old THEN <<new>> ELSE pm[k]]

\* CommitBuilder::write: a rewrite that keeps the source's change id records
\* source -> new; one with a new change id records nothing.
RecordRewrite(pm, C, source, new) ==
    IF C[source].change_id = C[new].change_id
      THEN SetRewrittenCommit(pm, source, new)
      ELSE pm

RECURSIVE Dedup(_)
\* s without the later duplicates of its elements.
Dedup(s) ==
    IF s = <<>> THEN <<>>
    ELSE LET init == Dedup(SubSeq(s, 1, Len(s) - 1))
         IN  IF s[Len(s)] \in Range(init) THEN init ELSE Append(init, s[Len(s)])

RECURSIVE Flatten(_)
Flatten(ss) == IF ss = <<>> THEN <<>> ELSE ss[1] \o Flatten(Tail(ss))

RECURSIVE ResolveRewritten(_, _)
\* What id stands for now: itself, or what its rewrite record leads to.
ResolveRewritten(pm, id) ==
    IF id \in DOMAIN pm
      THEN Flatten([i \in 1 .. Len(pm[id]) |-> ResolveRewritten(pm, pm[id][i])])
      ELSE <<id>>

\* new_parents(old_ids): the parents with every rewritten one replaced.
NewParents(pm, ps) ==
    Dedup(Flatten([i \in 1 .. Len(ps) |-> ResolveRewritten(pm, ps[i])]))

\* rewriter.replace_parent(old_parent, new_parents): a no-op when old_parent
\* is not among the rewriter's parents.
ReplaceParent(ps, old_parent, new_parents) ==
    IF old_parent \in Range(ps)
      THEN LET i == CHOOSE j \in 1 .. Len(ps) : ps[j] = old_parent
           IN  Dedup(SubSeq(ps, 1, i - 1) \o new_parents \o SubSeq(ps, i + 1, Len(ps)))
      ELSE ps

\* rewriter.rebase(): the old commit on its new parents, its own changes
\* re-applied by a tree merge when the parents changed.
RebasedCommit(C, old, new_parents) ==
    [C[old] EXCEPT
        !.parents = new_parents,
        !.tree = IF new_parents = C[old].parents
                   THEN C[old].tree
                   ELSE TreeMerge(MergeCommitTrees(C, new_parents),
                                  ParentTree(C, old), C[old].tree)]

\* The descendants of the roots that carry no rewrite record yet, parents
\* before children.
FindDescendantsToRebase(C, v, pm, roots) ==
    SortedSeq({d \in AncestorsOfSet(C, v.heads) :
                  /\ d \notin DOMAIN pm
                  /\ \E r \in roots : r \in Ancestors(C, d)})

\* update_rewritten_references: bookmarks and working-copy pointers follow
\* the rewrite records; rewritten commits leave the visible set.
UpdateRewrittenReferences(C, v, pm) ==
    LET follow(id) == IF id \in DOMAIN pm THEN ResolveRewritten(pm, id)[1] ELSE id
    IN  [heads         |-> HeadsOf(C, AncestorsOfSet(C, v.heads) \ DOMAIN pm),
         wc_commit_ids |-> [w \in DOMAIN v.wc_commit_ids |-> follow(v.wc_commit_ids[w])],
         bookmarks     |-> [b \in DOMAIN v.bookmarks |-> follow(v.bookmarks[b])]]

----------------------------------------------------------------------------
(* The collaborators of cmd_split (spec.md section 6).                     *)

\* A plain content that is neither of the two values.
OtherVal(a, b) == CHOOSE v \in PlainVals : Ind(v) \notin {a, b}

\* What diff_selector.select(base, end) may return: at every path the base
\* or the end content, and at path x also a content the user typed in.
Selections(base, end) ==
    LET choice(p) == {base[p], end[p]}
                       \cup (IF p = "x" THEN {Ind(OtherVal(base[p], end[p]))} ELSE {})
    IN  {t \in [Paths -> UNION {choice(p) : p \in Paths}] :
            \A p \in Paths : t[p] \in choice(p)}

\* The text an editor session may end with.
EditorTexts == {"edited"}

\* The ui.default-description setting.
DefaultDescription == ""

----------------------------------------------------------------------------
(* cmd_split, one action per state of the orchestrator.                    *)

\* ResolveTarget without the is_empty test.
ResolveTarget_NoEmptyCheck ==
    /\ pc = "ResolveTarget"
    /\ target_commit' = args.revision
    /\ pc' = "ValidateRewritable"
    /\ UNCHANGED <<commits, view, immutable_heads, args, result, warnings,
                   prompts, tx_started, tx_view, parent_mapping, end_tree,
                   base_tree, selected_tree, first_commit, second_commit,
                   legacy_bookmark_behavior, num_rebased, to_visit, visited>>
    /\ UNCHANGED colocation

\* split.rs:86-95: resolve the revision; refuse an empty commit.
ResolveTarget ==
    /\ pc = "ResolveTarget"
    /\ target_commit' = args.revision
    /\ \/ /\ IsEmpty(commits, args.revision)
          /\ pc' = "failed"
          /\ result' = "user_error_empty"
       \/ /\ ~IsEmpty(commits, args.revision)
          /\ pc' = "ValidateRewritable"
          /\ UNCHANGED result
    /\ UNCHANGED <<commits, view, immutable_heads, args, warnings, prompts,
                   tx_started, tx_view, parent_mapping, end_tree, base_tree,
                   selected_tree, first_commit, second_commit,
                   legacy_bookmark_behavior, num_rebased, to_visit, visited>>
    /\ UNCHANGED colocation

\* ValidateRewritable without the call of check_rewritable.
ValidateRewritable_Skipped ==
    /\ pc = "ValidateRewritable"
    /\ pc' = "StartTransaction"
    /\ UNCHANGED <<commits, view, immutable_heads, args, result, warnings,
                   prompts, tx_started, tx_view, parent_mapping, locals,
                   to_visit, visited>>
    /\ UNCHANGED colocation

\* split.rs:97: check_rewritable([target_commit.id()]).
ValidateRewritable ==
    /\ pc = "ValidateRewritable"
    /\ \/ /\ ~CheckRewritable(commits, immutable_heads, {target_commit})
          /\ pc' = "failed"
          /\ result' = "user_error_immutable"
       \/ /\ CheckRewritable(commits, immutable_heads, {target_commit})
          /\ pc' = "StartTransaction"
          /\ UNCHANGED result
    /\ UNCHANGED <<commits, view, immutable_heads, args, warnings, prompts,
                   tx_started, tx_view, parent_mapping, locals, to_visit, visited>>
    /\ UNCHANGED colocation

\* split.rs:98-109: the matcher, the selector and the editor are set up (any
\* of them may fail), then the transaction starts and the trees are read.
StartTransaction ==
    /\ pc = "StartTransaction"
    /\ \/ /\ pc' = "failed"
          /\ result' = "error"
          /\ UNCHANGED <<tx_started, tx_view, parent_mapping, end_tree, base_tree>>
       \/ /\ pc' = "SelectChanges"
          /\ tx_started' = TRUE
          /\ tx_view' = view
          /\ parent_mapping' = NoMapping
          /\ end_tree' = commits[target_commit].tree
          /\ base_tree' = ParentTree(commits, target_commit)
          /\ UNCHANGED result
    /\ UNCHANGED <<commits, view, immutable_heads, args, warnings, prompts,
                   target_commit, selected_tree, first_commit, second_commit,
                   legacy_bookmark_behavior, num_rebased, to_visit, visited>>
    /\ UNCHANGED colocation

\* split.rs:125-139: the user selects the first commit's tree.
SelectChanges ==
    /\ pc = "SelectChanges"
    /\ \E sel \in Selections(base_tree, end_tree) :
        /\ selected_tree' = sel
        /\ warnings' = IF sel = commits[target_commit].tree
                         THEN {"the second commit will be empty"}
                         ELSE IF sel = base_tree
                                THEN {"the first commit will be empty"}
                                ELSE {}
    /\ pc' = "BuildFirstCommit"
    /\ UNCHANGED <<commits, view, immutable_heads, args, result, prompts,
                   tx_started, tx_view, parent_mapping, target_commit, end_tree,
                   base_tree, first_commit, second_commit,
                   legacy_bookmark_behavior, num_rebased, to_visit, visited>>
    /\ UNCHANGED colocation

\* BuildFirstCommit without set_tree_id(selected_tree_id).
BuildFirstCommit_KeepsTree ==
    /\ pc = "BuildFirstCommit"
    /\ \E text \in EditorTexts :
        LET builder == commits[target_commit]
            temp    == [builder EXCEPT
                          !.description = IF @ = "" THEN DefaultDescription ELSE @]
            hidden  == WriteToStore(commits, temp)
            store   == WriteToStore(hidden, [builder EXCEPT !.description = text])
            id      == NextId(hidden)
        IN  /\ commits' = store
            /\ first_commit' = id
            /\ tx_view' = AddHead(store, tx_view, id)
            /\ parent_mapping' = RecordRewrite(parent_mapping, store, target_commit, id)
    /\ prompts' = Append(prompts, "first")
    /\ pc' = "BuildSecondCommit"
    /\ UNCHANGED <<view, immutable_heads, args, result, warnings, tx_started,
                   target_commit, end_tree, base_tree, selected_tree,
                   second_commit, legacy_bookmark_behavior, num_rebased,
                   to_visit, visited>>
    /\ UNCHANGED colocation

\* split.rs:143-159: the first commit is the target with the selected tree
\* and an edited description.
BuildFirstCommit ==
    /\ pc = "BuildFirstCommit"
    /\ \E text \in EditorTexts :
        LET builder == [commits[target_commit] EXCEPT !.tree = selected_tree]
            temp    == [builder EXCEPT
                          !.description = IF @ = "" THEN DefaultDescription ELSE @]
            hidden  == WriteToStore(commits, temp)
            store   == WriteToStore(hidden, [builder EXCEPT !.description = text])
            id      == NextId(hidden)
        IN  /\ commits' = store
            /\ first_commit' = id
            /\ tx_view' = AddHead(store, tx_view, id)
            /\ parent_mapping' = RecordRewrite(parent_mapping, store, target_commit, id)
    /\ prompts' = Append(prompts, "first")
    /\ pc' = "BuildSecondCommit"
    /\ UNCHANGED <<view, immutable_heads, args, result, warnings, tx_started,
                   target_commit, end_tree, base_tree, selected_tree,
                   second_commit, legacy_bookmark_behavior, num_rebased,
                   to_visit, visited>>
    /\ UNCHANGED colocation

\* SecondTree with the base tree, not the selected tree, as the merge base.
SecondTree_BaseSwapped ==
    IF args.parallel
      THEN TreeMerge(end_tree, base_tree, selected_tree)
      ELSE end_tree

\* SecondTree without the complement merge: the end tree in both modes.
SecondTree_EndTree == end_tree

\* SecondTree taking the complement in sequential mode too.
SecondTree_AlwaysComplement == TreeMerge(end_tree, selected_tree, base_tree)

\* split.rs:164-171: the second commit's tree.
SecondTree ==
    IF args.parallel
      THEN TreeMerge(end_tree, selected_tree, base_tree)
      ELSE end_tree

\* SecondParents with the two branches exchanged.
SecondParents_Swapped ==
    IF args.parallel
      THEN <<first_commit>>
      ELSE commits[target_commit].parents

\* split.rs:172-176: the second commit's parents.
SecondParents ==
    IF args.parallel
      THEN commits[target_commit].parents
      ELSE <<first_commit>>

\* BuildSecondCommit keeping the target's change id.
BuildSecondCommit_KeepsChangeId ==
    /\ pc = "BuildSecondCommit"
    /\ LET builder == [commits[target_commit] EXCEPT
                          !.parents = SecondParents,
                          !.tree = SecondTree]
       IN  \/ /\ commits[target_commit].description = ""
              /\ LET store == WriteToStore(commits, [builder EXCEPT !.description = ""])
                     id    == NextId(commits)
                 IN  /\ commits' = store
                     /\ second_commit' = id
                     /\ tx_view' = AddHead(store, tx_view, id)
                     /\ parent_mapping' =
                            RecordRewrite(parent_mapping, store, target_commit, id)
              /\ UNCHANGED prompts
           \/ /\ commits[target_commit].description # ""
              /\ \E text \in EditorTexts :
                  LET hidden == WriteToStore(commits, builder)
                      store  == WriteToStore(hidden, [builder EXCEPT !.description = text])
                      id     == NextId(hidden)
                  IN  /\ commits' = store
                      /\ second_commit' = id
                      /\ tx_view' = AddHead(store, tx_view, id)
                      /\ parent_mapping' =
                            RecordRewrite(parent_mapping, store, target_commit, id)
              /\ prompts' = Append(prompts, "second")
    /\ pc' = "RegisterLegacyRewrite"
    /\ UNCHANGED <<view, immutable_heads, args, result, warnings, tx_started,
                   target_commit, end_tree, base_tree, selected_tree,
                   first_commit, legacy_bookmark_behavior, num_rebased,
                   to_visit, visited>>
    /\ UNCHANGED colocation

\* BuildSecondCommit asking the editor whatever the target's description.
BuildSecondCommit_AlwaysPrompts ==
    /\ pc = "BuildSecondCommit"
    /\ LET builder == [commits[target_commit] EXCEPT
                          !.parents = SecondParents,
                          !.tree = SecondTree,
                          !.change_id = NewChangeId(commits)]
       IN  \/ /\ FALSE
              /\ LET store == WriteToStore(commits, [builder EXCEPT !.description = ""])
                     id    == NextId(commits)
                 IN  /\ commits' = store
                     /\ second_commit' = id
                     /\ tx_view' = AddHead(store, tx_view, id)
                     /\ parent_mapping' =
                            RecordRewrite(parent_mapping, store, target_commit, id)
              /\ UNCHANGED prompts
           \/ /\ TRUE
              /\ \E text \in EditorTexts :
                  LET hidden == WriteToStore(commits, builder)
                      store  == WriteToStore(hidden, [builder EXCEPT !.description = text])
                      id     == NextId(hidden)
                  IN  /\ commits' = store
                      /\ second_commit' = id
                      /\ tx_view' = AddHead(store, tx_view, id)
                      /\ parent_mapping' =
                            RecordRewrite(parent_mapping, store, target_commit, id)
              /\ prompts' = Append(prompts, "second")
    /\ pc' = "RegisterLegacyRewrite"
    /\ UNCHANGED <<view, immutable_heads, args, result, warnings, tx_started,
                   target_commit, end_tree, base_tree, selected_tree,
                   first_commit, legacy_bookmark_behavior, num_rebased,
                   to_visit, visited>>
    /\ UNCHANGED colocation

\* BuildSecondCommit returning an error when the tree it is to write has a
\* conflict.
BuildSecondCommit_RefusesConflict ==
    \/ /\ pc = "BuildSecondCommit"
       /\ HasConflict(SecondTree)
       /\ pc' = "failed"
       /\ result' = "error"
       /\ UNCHANGED <<commits, view, immutable_heads, args, warnings, prompts,
                      tx_started, tx_view, parent_mapping, locals, to_visit,
                      visited>>
       /\ UNCHANGED colocation
    \/ /\ ~HasConflict(SecondTree)
       /\ pc = "BuildSecondCommit"
       /\ LET builder == [commits[target_commit] EXCEPT
                             !.parents = SecondParents,
                             !.tree = SecondTree,
                             !.change_id = NewChangeId(commits)]
          IN  \/ /\ commits[target_commit].description = ""
                 /\ LET store == WriteToStore(commits, [builder EXCEPT !.description = ""])
                        id    == NextId(commits)
                    IN  /\ commits' = store
                        /\ second_commit' = id
                        /\ tx_view' = AddHead(store, tx_view, id)
                        /\ parent_mapping' =
                               RecordRewrite(parent_mapping, store, target_commit, id)
                 /\ UNCHANGED prompts
              \/ /\ commits[target_commit].description # ""
                 /\ \E text \in EditorTexts :
                     LET hidden == WriteToStore(commits, builder)
                         store  == WriteToStore(hidden, [builder EXCEPT !.description = text])
                         id     == NextId(hidden)
                     IN  /\ commits' = store
                         /\ second_commit' = id
                         /\ tx_view' = AddHead(store, tx_view, id)
                         /\ parent_mapping' =
                               RecordRewrite(parent_mapping, store, target_commit, id)
                 /\ prompts' = Append(prompts, "second")
       /\ pc' = "RegisterLegacyRewrite"
       /\ UNCHANGED <<view, immutable_heads, args, result, warnings, tx_started,
                      target_commit, end_tree, base_tree, selected_tree,
                      first_commit, legacy_bookmark_behavior, num_rebased,
                      to_visit, visited>>
       /\ UNCHANGED colocation

\* split.rs:163-200: the second commit gets a new change id, and an edited
\* description only when the target had one.
BuildSecondCommit ==
    /\ pc = "BuildSecondCommit"
    /\ LET builder == [commits[target_commit] EXCEPT
                          !.parents = SecondParents,
                          !.tree = SecondTree,
                          !.change_id = NewChangeId(commits)]
       IN  \/ /\ commits[target_commit].description = ""
              /\ LET store == WriteToStore(commits, [builder EXCEPT !.description = ""])
                     id    == NextId(commits)
                 IN  /\ commits' = store
                     /\ second_commit' = id
                     /\ tx_view' = AddHead(store, tx_view, id)
                     /\ parent_mapping' =
                            RecordRewrite(parent_mapping, store, target_commit, id)
              /\ UNCHANGED prompts
           \/ /\ commits[target_commit].description # ""
              /\ \E text \in EditorTexts :
                  LET hidden == WriteToStore(commits, builder)
                      store  == WriteToStore(hidden, [builder EXCEPT !.description = text])
                      id     == NextId(hidden)
                  IN  /\ commits' = store
                      /\ second_commit' = id
                      /\ tx_view' = AddHead(store, tx_view, id)
                      /\ parent_mapping' =
                            RecordRewrite(parent_mapping, store, target_commit, id)
              /\ prompts' = Append(prompts, "second")
    /\ pc' = "RegisterLegacyRewrite"
    /\ UNCHANGED <<view, immutable_heads, args, result, warnings, tx_started,
                   target_commit, end_tree, base_tree, selected_tree,
                   first_commit, legacy_bookmark_behavior, num_rebased,
                   to_visit, visited>>
    /\ UNCHANGED colocation

\* RegisterLegacyRewrite reading the setting and registering nothing.
RegisterLegacyRewrite_NoRecord ==
    /\ pc = "RegisterLegacyRewrite"
    /\ \E legacy \in BOOLEAN :
        /\ legacy_bookmark_behavior' = legacy
        /\ to_visit' = FindDescendantsToRebase(commits, tx_view, parent_mapping,
                                               {target_commit})
    /\ num_rebased' = 0
    /\ pc' = "CascadeDescendants"
    /\ UNCHANGED <<commits, view, immutable_heads, args, result, warnings,
                   prompts, tx_started, tx_view, parent_mapping, target_commit,
                   end_tree, base_tree, selected_tree, first_commit,
                   second_commit, visited>>
    /\ UNCHANGED colocation

\* split.rs:202-212: the legacy setting is read and, when it is on, the
\* record target -> second registered; then the cascade finds its commits.
RegisterLegacyRewrite ==
    /\ pc = "RegisterLegacyRewrite"
    /\ \E legacy \in BOOLEAN :
        LET pm == IF legacy
                    THEN SetRewrittenCommit(parent_mapping, target_commit, second_commit)
                    ELSE parent_mapping
        IN  /\ legacy_bookmark_behavior' = legacy
            /\ parent_mapping' = pm
            /\ to_visit' = FindDescendantsToRebase(commits, tx_view, pm, {target_commit})
    /\ num_rebased' = 0
    /\ pc' = "CascadeDescendants"
    /\ UNCHANGED <<commits, view, immutable_heads, args, result, warnings,
                   prompts, tx_started, tx_view, target_commit, end_tree,
                   base_tree, selected_tree, first_commit, second_commit, visited>>
    /\ UNCHANGED colocation

\* CallbackParents looking for the second commit in every branch.
CallbackParents_AnchorSecond(ps) ==
    IF args.parallel
      THEN ReplaceParent(ps, second_commit, <<first_commit, second_commit>>)
      ELSE ReplaceParent(ps, second_commit, <<second_commit>>)

\* CallbackParents putting the second commit before the first.
CallbackParents_SecondFirst(ps) ==
    IF args.parallel /\ legacy_bookmark_behavior
      THEN ReplaceParent(ps, second_commit, <<second_commit, first_commit>>)
      ELSE IF args.parallel
             THEN ReplaceParent(ps, first_commit, <<second_commit, first_commit>>)
             ELSE ReplaceParent(ps, first_commit, <<second_commit>>)

\* split.rs:214-222: the parents the callback gives the rewriter, whose
\* parents are ps when the callback is entered.
CallbackParents(ps) ==
    IF args.parallel /\ legacy_bookmark_behavior
      THEN ReplaceParent(ps, second_commit, <<first_commit, second_commit>>)
      ELSE IF args.parallel
             THEN ReplaceParent(ps, first_commit, <<first_commit, second_commit>>)
             ELSE ReplaceParent(ps, first_commit, <<second_commit>>)

\* RebaseDescendant counting only the commits whose parent it replaces.
RebaseDescendant_CountsChildrenOnly ==
    /\ pc = "CascadeDescendants"
    /\ to_visit # <<>>
    /\ LET old   == Head(to_visit)
           np    == NewParents(parent_mapping, commits[old].parents)
           ps    == CallbackParents(np)
           store == WriteToStore(commits, RebasedCommit(commits, old, ps))
           id    == NextId(commits)
       IN  /\ commits' = store
           /\ tx_view' = AddHead(store, tx_view, id)
           /\ parent_mapping' = RecordRewrite(parent_mapping, store, old, id)
           /\ visited' = Append(visited, old)
           /\ num_rebased' = IF ps # np THEN num_rebased + 1 ELSE num_rebased
    /\ to_visit' = Tail(to_visit)
    /\ UNCHANGED <<view, immutable_heads, args, pc, result, warnings, prompts,
                   tx_started, target_commit, end_tree, base_tree,
                   selected_tree, first_commit, second_commit,
                   legacy_bookmark_behavior>>
    /\ UNCHANGED colocation

\* RebaseDescendant without rewriter.rebase()?.write()?.
RebaseDescendant_NotWritten ==
    /\ pc = "CascadeDescendants"
    /\ to_visit # <<>>
    /\ visited' = Append(visited, Head(to_visit))
    /\ num_rebased' = num_rebased + 1
    /\ to_visit' = Tail(to_visit)
    /\ UNCHANGED <<commits, tx_view, parent_mapping, view, immutable_heads,
                   args, pc, result, warnings, prompts, tx_started,
                   target_commit, end_tree, base_tree, selected_tree,
                   first_commit, second_commit, legacy_bookmark_behavior>>
    /\ UNCHANGED colocation

\* split.rs:212-225: the callback, run on the next commit of the cascade.
RebaseDescendant ==
    /\ pc = "CascadeDescendants"
    /\ to_visit # <<>>
    /\ LET old   == Head(to_visit)
           ps    == CallbackParents(NewParents(parent_mapping, commits[old].parents))
           store == WriteToStore(commits, RebasedCommit(commits, old, ps))
           id    == NextId(commits)
       IN  /\ commits' = store
           /\ tx_view' = AddHead(store, tx_view, id)
           /\ parent_mapping' = RecordRewrite(parent_mapping, store, old, id)
           /\ visited' = Append(visited, old)
    /\ num_rebased' = num_rebased + 1
    /\ to_visit' = Tail(to_visit)
    /\ UNCHANGED <<view, immutable_heads, args, pc, result, warnings, prompts,
                   tx_started, target_commit, end_tree, base_tree,
                   selected_tree, first_commit, second_commit,
                   legacy_bookmark_behavior>>
    /\ UNCHANGED colocation

\* The end of transform_descendants (split.rs:225): the references follow
\* the rewrite records.
FinishCascade ==
    /\ pc = "CascadeDescendants"
    /\ to_visit = <<>>
    /\ tx_view' = UpdateRewrittenReferences(commits, tx_view, parent_mapping)
    /\ pc' = "RedirectWorkingCopies"
    /\ UNCHANGED <<commits, view, immutable_heads, args, result, warnings,
                   prompts, tx_started, parent_mapping, locals, to_visit, visited>>
    /\ UNCHANGED colocation

\* RedirectWorkingCopies editing the repository's View, not the transaction's.
RedirectWorkingCopies_Persisted ==
    /\ pc = "RedirectWorkingCopies"
    /\ view' = [view EXCEPT !.wc_commit_ids =
                   [w \in DOMAIN view.wc_commit_ids |->
                       IF view.wc_commit_ids[w] = target_commit
                         THEN second_commit
                         ELSE view.wc_commit_ids[w]]]
    /\ pc' = "Commit"
    /\ UNCHANGED <<commits, tx_view, immutable_heads, args, result, warnings,
                   prompts, tx_started, parent_mapping, locals, to_visit, visited>>
    /\ UNCHANGED colocation

\* RedirectWorkingCopies leaving every working copy where the cascade put it.
RedirectWorkingCopies_Skipped ==
    /\ pc = "RedirectWorkingCopies"
    /\ pc' = "Commit"
    /\ UNCHANGED <<commits, view, tx_view, immutable_heads, args, result, warnings,
                   prompts, tx_started, parent_mapping, locals, to_visit, visited>>
    /\ UNCHANGED colocation

\* RedirectWorkingCopies giving the workspaces the target back.
RedirectWorkingCopies_ToTarget ==
    /\ pc = "RedirectWorkingCopies"
    /\ tx_view' = [tx_view EXCEPT !.wc_commit_ids =
                      [w \in DOMAIN view.wc_commit_ids |->
                          IF view.wc_commit_ids[w] = target_commit
                            THEN target_commit
                            ELSE tx_view.wc_commit_ids[w]]]
    /\ pc' = "Commit"
    /\ UNCHANGED <<commits, view, immutable_heads, args, result, warnings,
                   prompts, tx_started, parent_mapping, locals, to_visit, visited>>
    /\ UNCHANGED colocation

\* split.rs:228-232: every workspace that had the target checked out before
\* the transaction gets the second commit.
RedirectWorkingCopies ==
    /\ pc = "RedirectWorkingCopies"
    /\ tx_view' = [tx_view EXCEPT !.wc_commit_ids =
                      [w \in DOMAIN view.wc_commit_ids |->
                          IF view.wc_commit_ids[w] = target_commit
                            THEN second_commit
                            ELSE tx_view.wc_commit_ids[w]]]
    /\ pc' = "Commit"
    /\ UNCHANGED <<commits, view, immutable_heads, args, result, warnings,
                   prompts, tx_started, parent_mapping, locals, to_visit, visited>>
    /\ UNCHANGED colocation

\* split.rs:234-245: the summary is written and the transaction finished: its
\* View becomes the repository's.
Finish ==
    /\ pc = "Commit"
    /\ view' = tx_view
    /\ pc' = "done"
    /\ result' = "ok"
    /\ UNCHANGED <<commits, immutable_heads, args, warnings, prompts,
                   tx_started, tx_view, parent_mapping, locals, to_visit, visited>>
    /\ UNCHANGED colocation

\* Any `?` after start_transaction (split.rs:108-244): cmd_split returns the
\* error and the transaction is dropped unfinished.
Abort ==
    /\ pc \in {"SelectChanges", "BuildFirstCommit", "BuildSecondCommit",
               "RegisterLegacyRewrite", "CascadeDescendants",
               "RedirectWorkingCopies", "Commit"}
    /\ pc' = "failed"
    /\ result' = "error"
    /\ UNCHANGED <<commits, view, immutable_heads, args, warnings, prompts,
                   tx_started, tx_view, parent_mapping, locals, to_visit, visited>>
    /\ UNCHANGED colocation

Next ==
    \/ ResolveTarget
    \/ ValidateRewritable
    \/ StartTransaction
    \/ SelectChanges
    \/ BuildFirstCommit
    \/ BuildSecondCommit
    \/ RegisterLegacyRewrite
    \/ RebaseDescendant
    \/ FinishCascade
    \/ RedirectWorkingCopies
    \/ Finish
    \/ Abort

Spec == Init /\ [][Next]_vars

----------------------------------------------------------------------------
(* cmd_git_colocate, one action per step that can fail (colocate.rs).      *)

\* colocate.rs:175-178, 249-252: what a conversion reports.
EnabledMessage ==
    "Repository successfully converted into a co-located Jujutsu/git repository."
DisabledMessage ==
    "Repository successfully converted into a non co-located regular Jujutsu repository."

\* colocate.rs:141-144: what enable reports when the move fails.
EnableMoveFailedMessage ==
    "Failed to move git repository from .jj/repo/store/git to repository root directory."

\* The command returns: its result and its status line go to the history.
Return(a, res, msg) ==
    /\ colocate_pc' = "idle"
    /\ colocate_result' = res
    /\ status' = msg
    /\ history' = Append(history, [args |-> a, result |-> res, status |-> msg])

\* The command goes on to its next step.
Goto(step) ==
    /\ colocate_pc' = step
    /\ UNCHANGED <<colocate_result, status, history>>

\* std::fs::write that fails: the file is as it was, or was opened and left
\* empty.
FailedWrite(old) == {old, Truncated}

\* colocate.rs:38-59: the workspace is loaded, the flags are validated and
\* the command dispatched.
CmdGitColocate ==
    /\ colocate_pc = "idle"
    /\ Len(history) < MaxCommands
    /\ \E enable \in BOOLEAN, disable \in BOOLEAN :
        LET a == [enable |-> enable, disable |-> disable]
        IN  /\ colocate_args' = a
            /\ IF ~WorkspaceLoads(fs)
                 THEN /\ Return(a, "error", "workspace does not load")
                      /\ UNCHANGED is_colocated
                 ELSE /\ is_colocated' = IsColocatedGitWorkspace(fs)
                      /\ IF enable /\ disable
                           THEN Return(a, "user_error",
                                  "Cannot specify both --enable and --disable flags")
                           ELSE Goto(IF enable THEN "enable_repository_colocation"
                                     ELSE IF disable THEN "disable_repository_colocation"
                                     ELSE "show_status")
    /\ UNCHANGED <<fs, fs0>>
    /\ UNCHANGED vars

\* colocate.rs:61-86.
ShowStatus ==
    /\ colocate_pc = "show_status"
    /\ Return(colocate_args, "ok",
              IF is_colocated
                THEN "Repository is currently co-located with Git"
                ELSE "Repository is currently not co-located with Git")
    /\ UNCHANGED <<fs, fs0, colocate_args, is_colocated>>
    /\ UNCHANGED vars

\* EnableRepositoryColocation without the early return of a co-located
\* workspace.
EnableRepositoryColocation_NoEarlyReturn ==
    /\ colocate_pc = "enable_repository_colocation"
    /\ IF fs.dot_git.exists
         THEN Return(colocate_args, "user_error",
                     "A .git directory already exists in the workspace root.")
         ELSE IF fs.jj_repo_is_file
         THEN Return(colocate_args, "user_error", "Cannot co-locate a Jujutsu workspace.")
         ELSE IF ~fs.git_store.exists
         THEN Return(colocate_args, "user_error", "git store not found.")
         ELSE Goto("write_jj_gitignore")
    /\ UNCHANGED <<fs, fs0, colocate_args, is_colocated>>
    /\ UNCHANGED vars

\* EnableRepositoryColocation that does not look for a .git at the root.
EnableRepositoryColocation_NoDotGitCheck ==
    /\ colocate_pc = "enable_repository_colocation"
    /\ IF is_colocated
         THEN Return(colocate_args, "ok", "Repository is already co-located with Git.")
         ELSE IF fs.jj_repo_is_file
         THEN Return(colocate_args, "user_error", "Cannot co-locate a Jujutsu workspace.")
         ELSE IF ~fs.git_store.exists
         THEN Return(colocate_args, "user_error", "git store not found.")
         ELSE Goto("write_jj_gitignore")
    /\ UNCHANGED <<fs, fs0, colocate_args, is_colocated>>
    /\ UNCHANGED vars

\* colocate.rs:88-119: nothing to do when already co-located; the three
\* refusals; otherwise the conversion starts.
EnableRepositoryColocation ==
    /\ colocate_pc = "enable_repository_colocation"
    /\ IF is_colocated
         THEN Return(colocate_args, "ok", "Repository is already co-located with Git.")
         ELSE IF fs.dot_git.exists
         THEN Return(colocate_args, "user_error",
                     "A .git directory already exists in the workspace root.")
         ELSE IF fs.jj_repo_is_file
         THEN Return(colocate_args, "user_error", "Cannot co-locate a Jujutsu workspace.")
         ELSE IF ~fs.git_store.exists
         THEN Return(colocate_args, "user_error", "git store not found.")
         ELSE Goto("write_jj_gitignore")
    /\ UNCHANGED <<fs, fs0, colocate_args, is_colocated>>
    /\ UNCHANGED vars

\* EnableWriteJjGitignore that leaves the file alone.
EnableWriteJjGitignore_NotWritten ==
    /\ colocate_pc = "write_jj_gitignore"
    /\ Goto("enable_write_git_target")
    /\ UNCHANGED <<fs, fs0, colocate_args, is_colocated>>
    /\ UNCHANGED vars

\* colocate.rs:126-128: .jj/.gitignore is written, over any older one.
EnableWriteJjGitignore ==
    /\ colocate_pc = "write_jj_gitignore"
    /\ \/ /\ fs' = [fs EXCEPT !.jj_gitignore = JjGitignoreContent]
          /\ Goto("enable_write_git_target")
       \/ /\ \E c \in FailedWrite(fs.jj_gitignore) :
                fs' = [fs EXCEPT !.jj_gitignore = c]
          /\ Return(colocate_args, "error", "Failed to create .jj/.gitignore file.")
    /\ UNCHANGED <<fs0, colocate_args, is_colocated>>
    /\ UNCHANGED vars

\* colocate.rs:132-135: git_target is pointed at the root's .git before the
\* directory is moved there.
EnableWriteGitTarget ==
    /\ colocate_pc = "enable_write_git_target"
    /\ \/ /\ fs' = [fs EXCEPT !.git_target = GitTargetColocated]
          /\ Goto("move_directory")
       \/ /\ \E c \in FailedWrite(fs.git_target) :
                fs' = [fs EXCEPT !.git_target = c]
          /\ Return(colocate_args, "error", "Failed to create git_target file.")
    /\ UNCHANGED <<fs0, colocate_args, is_colocated>>
    /\ UNCHANGED vars

\* The directory moved and where it goes: enable moves the store's git
\* directory to the root's .git (colocate.rs:138), disable moves it back
\* (colocate.rs:234).
MoveFrom == IF colocate_args.enable THEN "git_store" ELSE "dot_git"
MoveTo == IF colocate_args.enable THEN "dot_git" ELSE "git_store"

\* move_directory returned Ok: the caller goes on.
MoveSucceeds ==
    Goto(IF colocate_args.enable THEN "unset_core_bare" ELSE "disable_write_git_target")

\* move_directory returned Err with the files as in f.  enable tries to
\* delete git_target and ignores whether that worked (colocate.rs:138-145);
\* disable returns the error (colocate.rs:234-236).
MoveFails(f) ==
    /\ IF colocate_args.enable
         THEN \E t \in {NoFile, f.git_target} : fs' = [f EXCEPT !.git_target = t]
         ELSE fs' = f
    /\ Return(colocate_args, "error",
              IF colocate_args.enable
                THEN EnableMoveFailedMessage
                ELSE "Failed to move git repository to .jj/repo/store/git")

\* MoveRename whose rename leaves the directory at its source too.
MoveRename_SourceKept ==
    /\ colocate_pc = "move_directory"
    /\ \/ /\ fs' = [fs EXCEPT ![MoveTo] = fs[MoveFrom]]
          /\ MoveSucceeds
       \/ /\ UNCHANGED fs
          /\ Goto("copy_dir_recursive")
    /\ UNCHANGED <<fs0, colocate_args, is_colocated>>
    /\ UNCHANGED vars

\* colocate.rs:258-261: the rename moves the directory in one step, or fails
\* and leaves it to the copy.
MoveRename ==
    /\ colocate_pc = "move_directory"
    /\ \/ /\ fs' = [fs EXCEPT ![MoveTo] = fs[MoveFrom], ![MoveFrom] = NoDir]
          /\ MoveSucceeds
       \/ /\ UNCHANGED fs
          /\ Goto("copy_dir_recursive")
    /\ UNCHANGED <<fs0, colocate_args, is_colocated>>
    /\ UNCHANGED vars

\* colocate.rs:272-277: the destination directory is created when it is not
\* there.
CopyCreateDir ==
    /\ colocate_pc = "copy_dir_recursive"
    /\ IF fs[MoveTo].exists
         THEN /\ UNCHANGED fs
              /\ Goto("copy_entries")
         ELSE \/ /\ fs' = [fs EXCEPT ![MoveTo] = Dir({})]
                 /\ Goto("copy_entries")
              \/ MoveFails(fs)
    /\ UNCHANGED <<fs0, colocate_args, is_colocated>>
    /\ UNCHANGED vars

\* The entries of the source that are not at the destination yet.
ToCopy == fs[MoveFrom].entries \ fs[MoveTo].entries

\* colocate.rs:279-290: the next entry is copied, a directory before its
\* entries; any of the reads and copies may fail.
CopyEntry ==
    /\ colocate_pc = "copy_entries"
    /\ ToCopy # {}
    /\ \/ /\ \E p \in ToCopy :
                /\ ParentEntry(p) = "" \/ ParentEntry(p) \in fs[MoveTo].entries
                /\ fs' = [fs EXCEPT ![MoveTo] = Dir(fs[MoveTo].entries \cup {p})]
          /\ Goto("copy_entries")
       \/ MoveFails(fs)
    /\ UNCHANGED <<fs0, colocate_args, is_colocated>>
    /\ UNCHANGED vars

\* What a failed remove_dir_all may leave of a directory: the directory with
\* any of its entries, a file only along with the directory it is in.
PartlyRemoved(d) ==
    {Dir(S) : S \in {T \in SUBSET d.entries :
                        \A p \in T : ParentEntry(p) = "" \/ ParentEntry(p) \in T}}

\* RemoveSource that does not wait for the copy to be over.
RemoveSource_BeforeCopyEnds ==
    /\ colocate_pc = "copy_entries"
    /\ \/ /\ fs' = [fs EXCEPT ![MoveFrom] = NoDir]
          /\ MoveSucceeds
       \/ \E d \in PartlyRemoved(fs[MoveFrom]) : MoveFails([fs EXCEPT ![MoveFrom] = d])
    /\ UNCHANGED <<fs0, colocate_args, is_colocated>>
    /\ UNCHANGED vars

\* colocate.rs:264: after the copy the source is removed.
RemoveSource ==
    /\ colocate_pc = "copy_entries"
    /\ ToCopy = {}
    /\ \/ /\ fs' = [fs EXCEPT ![MoveFrom] = NoDir]
          /\ MoveSucceeds
       \/ \E d \in PartlyRemoved(fs[MoveFrom]) : MoveFails([fs EXCEPT ![MoveFrom] = d])
    /\ UNCHANGED <<fs0, colocate_args, is_colocated>>
    /\ UNCHANGED vars

\* colocate.rs:148-169: `git config --unset core.bare` in the moved
\* repository.
EnableUnsetCoreBare ==
    /\ colocate_pc = "unset_core_bare"
    /\ \/ /\ fs' = [fs EXCEPT !.core_bare = FALSE]
          /\ Goto("maybe_snapshot")
       \/ /\ UNCHANGED fs
          /\ Return(colocate_args, "error", "Failed to unset core.bare in git config.")
    /\ UNCHANGED <<fs0, colocate_args, is_colocated>>
    /\ UNCHANGED vars

\* colocate.rs:173-180: the snapshot exports to git, and the conversion is
\* reported.
EnableSnapshot ==
    /\ colocate_pc = "maybe_snapshot"
    /\ \/ Return(colocate_args, "ok",
                 EnabledMessage)
       \/ Return(colocate_args, "error", "snapshot failed")
    /\ UNCHANGED <<fs, fs0, colocate_args, is_colocated>>
    /\ UNCHANGED vars

\* colocate.rs:183-213: nothing to do when not co-located; the two
\* refusals; otherwise the conversion starts.
DisableRepositoryColocation ==
    /\ colocate_pc = "disable_repository_colocation"
    /\ IF ~is_colocated
         THEN Return(colocate_args, "ok", "Repository is already not co-located with Git.")
         ELSE IF ~fs.dot_git.exists
         THEN Return(colocate_args, "user_error",
                     "No .git directory found in workspace root.")
         ELSE IF fs.git_store.exists
         THEN Return(colocate_args, "user_error",
                     "git store already exists at .jj/repo/store/git.")
         ELSE Goto("set_core_bare")
    /\ UNCHANGED <<fs, fs0, colocate_args, is_colocated>>
    /\ UNCHANGED vars

\* colocate.rs:216-231: `git config core.bare true` in the root's .git.
DisableSetCoreBare ==
    /\ colocate_pc = "set_core_bare"
    /\ \/ /\ fs' = [fs EXCEPT !.core_bare = TRUE]
          /\ Goto("move_directory")
       \/ /\ UNCHANGED fs
          /\ Return(colocate_args, "error", "Failed to set core.bare in git config.")
    /\ UNCHANGED <<fs0, colocate_args, is_colocated>>
    /\ UNCHANGED vars

\* DisableWriteGitTarget that leaves git_target pointing at the root.
DisableWriteGitTarget_NotWritten ==
    /\ colocate_pc = "disable_write_git_target"
    /\ Goto("remove_jj_gitignore")
    /\ UNCHANGED <<fs, fs0, colocate_args, is_colocated>>
    /\ UNCHANGED vars

\* colocate.rs:238-241: git_target is pointed back at the store.
DisableWriteGitTarget ==
    /\ colocate_pc = "disable_write_git_target"
    /\ \/ /\ fs' = [fs EXCEPT !.git_target = GitTargetEmbedded]
          /\ Goto("remove_jj_gitignore")
       \/ /\ \E c \in FailedWrite(fs.git_target) :
                fs' = [fs EXCEPT !.git_target = c]
          /\ Return(colocate_args, "error", "Failed to update git_target file.")
    /\ UNCHANGED <<fs0, colocate_args, is_colocated>>
    /\ UNCHANGED vars

\* colocate.rs:244-254: .jj/.gitignore is removed when it is there, and the
\* conversion is reported.
DisableRemoveJjGitignore ==
    /\ colocate_pc = "remove_jj_gitignore"
    /\ IF fs.jj_gitignore # NoFile
         THEN \/ /\ fs' = [fs EXCEPT !.jj_gitignore = NoFile]
                 /\ Return(colocate_args, "ok",
                           DisabledMessage)
              \/ /\ UNCHANGED fs
                 /\ Return(colocate_args, "error", "Failed to remove .jj/.gitignore file.")
         ELSE /\ UNCHANGED fs
              /\ Return(colocate_args, "ok",
                        DisabledMessage)
    /\ UNCHANGED <<fs0, colocate_args, is_colocated>>
    /\ UNCHANGED vars

ColocateNext ==
    \/ CmdGitColocate
    \/ ShowStatus
    \/ EnableRepositoryColocation
    \/ EnableWriteJjGitignore
    \/ EnableWriteGitTarget
    \/ MoveRename
    \/ CopyCreateDir
    \/ CopyEntry
    \/ RemoveSource
    \/ EnableUnsetCoreBare
    \/ EnableSnapshot
    \/ DisableRepositoryColocation
    \/ DisableSetCoreBare
    \/ DisableWriteGitTarget
    \/ DisableRemoveJjGitignore

\* The repository the colocate commands run on: a chain of commits.
ColocateRepo ==
    [commits  |-> BuildCommits([i \in 1 .. NumCommits |-> <<i - 1>>], RootId, "none",
                               NumCommits),
     revision |-> RootId]

ColocateInit ==
    /\ SplitStart(ColocateRepo, FALSE, {})
    /\ \E f \in InitialLayouts : ColocateStart(f)

ColocateSpec == ColocateInit /\ [][ColocateNext]_<<vars, colocation>>

----------------------------------------------------------------------------
(* What the claims speak about.                                            *)

\* The commits of the repository before the split.
Original == 0 .. NumCommits

\* D: the commits that had the target as a proper ancestor before the split.
TargetDescendants == Descendants(commits, args.revision) \cap Original

\* Nothing has been written, started or moved since cmd_split was entered.
NothingMutated ==
    /\ view = InitialView(commits)
    /\ DOMAIN commits = Original
    /\ ~tx_started
    /\ parent_mapping = NoMapping
    /\ first_commit = NoCommit
    /\ second_commit = NoCommit

\* The commit that replaced the old commit in the cascade.
Rewritten(old) == parent_mapping[old][1]

\* The selector has returned and no error has.
Selected ==
    pc \in {"BuildFirstCommit", "BuildSecondCommit", "RegisterLegacyRewrite",
            "CascadeDescendants", "RedirectWorkingCopies", "Commit", "done"}

\* C1: splitting an empty commit returns the empty-commit user error, and
\* the View, the rewrite records and the set of written commits are as they
\* were: no selector ran, no commit was written, no transaction started.
C1_EmptyTargetRefused ==
    (IsEmpty(commits, args.revision) /\ pc # "ResolveTarget")
        => /\ pc = "failed"
           /\ result = "user_error_empty"
           /\ NothingMutated
           /\ warnings = {}
           /\ prompts = <<>>

C1_Witness ==
    /\ pc = "failed"
    /\ result = "user_error_empty"
    /\ args.revision # RootId
    /\ TargetDescendants # {}

C3_ViewAllOrNothing ==
    /\ pc # "done" => view = InitialView(commits)
    /\ pc = "done" => view = tx_view /\ result = "ok"

C3_Witness ==
    /\ pc = "failed"
    /\ result = "error"
    /\ num_rebased > 0
    /\ to_visit = <<>>
    /\ tx_view # view
    /\ tx_view.wc_commit_ids[args.revision] = second_commit

\* C4: the callback runs once for each commit that has the target as a
\* proper ancestor and for no other commit, so that when the cascade is
\* over num_rebased = |D|.
C4_EachDescendantOnce ==
    /\ Range(visited) \subseteq TargetDescendants
    /\ \A i, j \in 1 .. Len(visited) : visited[i] = visited[j] => i = j
    /\ num_rebased = Len(visited)
    /\ pc \in {"RedirectWorkingCopies", "Commit", "done"}
          => /\ Range(visited) = TargetDescendants
             /\ num_rebased = Cardinality(TargetDescendants)

\* A descendant the target reaches along two paths.
C4_Witness ==
    /\ pc = "done"
    /\ num_rebased >= 2
    /\ \E d \in Range(visited) :
          /\ Len(commits[d].parents) = 2
          /\ Range(commits[d].parents) \subseteq TargetDescendants \cup {args.revision}

\* C5: when a descendant is rebased, each of its ancestors among the
\* target's descendants has been rebased and written before it, the parents
\* it gets are rewritten ids, never replaced ones, and the order of the
\* visits depends on the input graph alone.
C5_ParentsBeforeChildren ==
    /\ \A i \in 1 .. Len(visited) :
          /\ \A a \in (Ancestors(commits, visited[i]) \cap TargetDescendants) \ {visited[i]} :
                \E k \in 1 .. i - 1 : visited[k] = a
          /\ visited[i] \in DOMAIN parent_mapping
          /\ Range(commits[Rewritten(visited[i])].parents)
                \cap (TargetDescendants \cup {args.revision}) = {}
    /\ visited = SubSeq(SortedSeq(TargetDescendants), 1, Len(visited))

C5_Witness ==
    /\ pc = "done"
    /\ Len(visited) >= 2
    /\ visited[1] \in ParentSet(commits, visited[2])
    /\ Rewritten(visited[1]) \in ParentSet(commits, Rewritten(visited[2]))

\* The parents a rebased descendant must get: the target replaced by
\* `anchor`, every other rewritten parent by its rewritten counterpart.
ExpectedParents(old, anchor) ==
    Flatten([i \in 1 .. Len(commits[old].parents) |->
                LET p == commits[old].parents[i]
                IN  IF p = args.revision THEN anchor
                    ELSE IF p \in DOMAIN parent_mapping THEN <<Rewritten(p)>>
                    ELSE <<p>>])

\* C6: without --parallel, whatever the legacy setting, each rebased
\* descendant has the target among its parents replaced by the second
\* commit alone, and the first commit is a parent of no descendant.
C6_SequentialReparenting ==
    ~args.parallel =>
        \A old \in Range(visited) :
            /\ commits[Rewritten(old)].parents = ExpectedParents(old, <<second_commit>>)
            /\ first_commit \notin ParentSet(commits, Rewritten(old))

C6_Witness ==
    /\ pc = "done"
    /\ ~args.parallel
    /\ ~legacy_bookmark_behavior
    /\ \E old \in Range(visited) :
          /\ args.revision \in ParentSet(commits, old)
          /\ Len(commits[old].parents) = 2

\* C7: with --parallel, whatever the legacy setting, each direct child has
\* the target among its parents replaced by first, second in that order and
\* its other parents kept; deeper descendants get their parents' rewritten
\* counterparts; an only child B of A ends as B with parents [A1, A2] and a
\* rebased count of 1.
C7_ParallelReparenting ==
    args.parallel =>
        /\ \A old \in Range(visited) :
              commits[Rewritten(old)].parents
                  = ExpectedParents(old, <<first_commit, second_commit>>)
        /\ \A b \in Original :
              (/\ pc = "done"
               /\ TargetDescendants = {b}
               /\ commits[b].parents = <<args.revision>>)
                  => /\ num_rebased = 1
                     /\ commits[Rewritten(b)].parents = <<first_commit, second_commit>>

C7_Witness ==
    /\ pc = "done"
    /\ args.parallel
    /\ ~legacy_bookmark_behavior
    /\ \E b \in Original :
          /\ TargetDescendants = {b}
          /\ commits[b].parents = <<args.revision>>
          /\ commits[Rewritten(b)].parents = <<first_commit, second_commit>>

\* C8: the first commit has the target's parent list; the second commit has
\* the first commit as its only parent, or with --parallel the target's
\* parent list.
C8_NewCommitParents ==
    /\ first_commit # NoCommit
          => commits[first_commit].parents = commits[args.revision].parents
    /\ second_commit # NoCommit
          => commits[second_commit].parents =
                IF args.parallel THEN commits[args.revision].parents
                                 ELSE <<first_commit>>

C8_Witness ==
    /\ pc = "done"
    /\ args.parallel
    /\ Len(commits[args.revision].parents) = 2
    /\ commits[second_commit].parents = commits[first_commit].parents

\* C9: when everything is selected no stage refuses to go on, the warning
\* says that the second commit will be empty, the first commit has the
\* target's tree and the second commit is empty: its tree is the tree its
\* parents imply, the first commit's or with --parallel the base tree.
C9_EverythingSelected ==
    (Selected /\ selected_tree = end_tree) =>
        /\ warnings = {"the second commit will be empty"}
        /\ result = IF pc = "done" THEN "ok" ELSE "none"
        /\ first_commit # NoCommit
              => commits[first_commit].tree = commits[args.revision].tree
        /\ second_commit # NoCommit
              => /\ IsEmpty(commits, second_commit)
                 /\ commits[second_commit].tree =
                        IF args.parallel THEN base_tree
                                         ELSE commits[first_commit].tree

C9_Witness ==
    /\ pc = "done"
    /\ result = "ok"
    /\ args.parallel
    /\ selected_tree = end_tree
    /\ IsEmpty(commits, second_commit)
    /\ ~IsEmpty(commits, first_commit)

\* C10: when nothing is selected no stage refuses to go on, the only warning
\* says that the first commit will be empty, the first commit is empty (its
\* tree is the base tree) and the second commit has the target's tree.
C10_NothingSelected ==
    (Selected /\ selected_tree = base_tree) =>
        /\ warnings = {"the first commit will be empty"}
        /\ result = IF pc = "done" THEN "ok" ELSE "none"
        /\ first_commit # NoCommit
              => /\ IsEmpty(commits, first_commit)
                 /\ commits[first_commit].tree = base_tree
        /\ second_commit # NoCommit
              => commits[second_commit].tree = commits[args.revision].tree

C10_Witness ==
    /\ pc = "done"
    /\ result = "ok"
    /\ args.parallel
    /\ selected_tree = base_tree
    /\ IsEmpty(commits, first_commit)
    /\ commits[second_commit].tree = end_tree

\* The second commit has been written by a parallel split.
ParallelSecondWritten == args.parallel /\ second_commit # NoCommit

\* What the complement has to hold: the parent's value where the selection
\* took the change, the target's value where the selection left it.
ComplementOfSelection(t) ==
    \A p \in Paths :
        /\ (selected_tree[p] = end_tree[p] /\ end_tree[p] # base_tree[p])
              => t[p] = base_tree[p]
        /\ selected_tree[p] = base_tree[p] => t[p] = end_tree[p]

\* The path-wise rule as the specification words it, merge(self, other,
\* base): the third argument is the common base of the two sides.
MergeSelfOtherBase(self, other, base) == TreeMerge(self, base, other)

\* C11 as stated: in parallel mode the second commit's tree is
\* merge(end_tree, selected_tree, base_tree) read with base_tree as the
\* common base, and it holds exactly the changes that were not selected.
C11_BaseTreeAsBase ==
    ParallelSecondWritten =>
        /\ commits[second_commit].tree =
              MergeSelfOtherBase(end_tree, selected_tree, base_tree)
        /\ ComplementOfSelection(commits[second_commit].tree)

\* C11: in parallel mode the second commit's tree is the merge of the end
\* tree and the base tree with the selected tree as the common base, and it
\* holds exactly the changes that were not selected: the base value on every
\* path the selection took, the end value on every path it left.
C11_ComplementTree ==
    ParallelSecondWritten =>
        /\ commits[second_commit].tree =
              MergeSelfOtherBase(end_tree, base_tree, selected_tree)
        /\ ComplementOfSelection(commits[second_commit].tree)

C11_Witness ==
    /\ pc = "done"
    /\ args.parallel
    /\ selected_tree["x"] = end_tree["x"]
    /\ end_tree["x"] # base_tree["x"]
    /\ selected_tree["y"] = base_tree["y"]
    /\ end_tree["y"] # base_tree["y"]
    /\ commits[second_commit].tree["x"] = base_tree["x"]
    /\ commits[second_commit].tree["y"] = end_tree["y"]

\* C12: in sequential mode the second commit's tree is the target's tree
\* and its only parent is the first commit, whose tree is the selected tree;
\* the first commit's change applied to the base tree and then the second
\* commit's change give the target's tree again.
C12_SequentialRoundTrip ==
    (~args.parallel /\ second_commit # NoCommit) =>
        /\ commits[second_commit].tree = commits[target_commit].tree
        /\ commits[second_commit].parents = <<first_commit>>
        /\ commits[first_commit].tree = selected_tree
        /\ LET afterFirst == TreeMerge(ParentTree(commits, target_commit),
                                       ParentTree(commits, first_commit),
                                       commits[first_commit].tree)
               afterSecond == TreeMerge(afterFirst,
                                        ParentTree(commits, second_commit),
                                        commits[second_commit].tree)
           IN  afterSecond = commits[target_commit].tree

C12_Witness ==
    /\ pc = "done"
    /\ ~args.parallel
    /\ selected_tree # base_tree
    /\ selected_tree # end_tree
    /\ commits[second_commit].tree = commits[target_commit].tree
    /\ commits[second_commit].parents = <<first_commit>>

\* The commits reachable from the heads of a view.
Live(v) == AncestorsOfSet(commits, v.heads)

\* No two commits of S carry the same change id.
NoSharedChangeId(S) ==
    \A c, d \in S : commits[c].change_id = commits[d].change_id => c = d

\* The commits other than the second commit that carry its change id.
SharesSecondChangeId ==
    {c \in DOMAIN commits \ {second_commit} :
        commits[c].change_id = commits[second_commit].change_id}

\* What C13 says of the first commit and of the commits left live.
FirstKeepsChangeId ==
    /\ commits[first_commit].change_id = commits[target_commit].change_id
    /\ commits[first_commit].change_id # commits[second_commit].change_id
    /\ pc = "done" => NoSharedChangeId(Live(view))

\* C13 as stated: once the second commit is written no other commit has its
\* change id, the first commit keeps the target's, the two differ, and no
\* two live commits share a change id after the split.
C13_NoOtherCommit ==
    second_commit # NoCommit =>
        /\ SharesSecondChangeId = {}
        /\ FirstKeepsChangeId

\* C13: once the second commit is written its change id is one that no
\* commit of the repository before the split and no other live commit has
\* (only the hidden commit written for its description template shares it),
\* the first commit keeps the target's change id, the two differ, and no two
\* live commits share a change id after the split.
C13_FreshChangeId ==
    second_commit # NoCommit =>
        /\ SharesSecondChangeId \cap Original = {}
        /\ SharesSecondChangeId \cap (Live(tx_view) \cup Live(view)) = {}
        /\ SharesSecondChangeId \subseteq
              (IF commits[target_commit].description = ""
                 THEN {} ELSE {second_commit - 1})
        /\ FirstKeepsChangeId

C13_Witness ==
    /\ pc = "done"
    /\ commits[target_commit].description # ""
    /\ SharesSecondChangeId = {second_commit - 1}
    /\ TargetDescendants # {}
    /\ NoSharedChangeId(Live(view))
    /\ {first_commit, second_commit} \subseteq Live(view)

\* The View of the repository before the transaction: cmd_split changes
\* the repository's View only when it finishes.
PreTransactionView == InitialView(commits)

\* C14: after a successful split every workspace that had the target checked
\* out before the transaction has the second commit checked out, and every
\* workspace whose commit was neither the target nor a descendant of it
\* keeps its commit.
C14_WorkingCopiesFollowSecond ==
    pc = "done" =>
        \A w \in WorkspaceIds :
            LET before == PreTransactionView.wc_commit_ids[w]
            IN  /\ before = target_commit => view.wc_commit_ids[w] = second_commit
                /\ before \notin {target_commit} \cup TargetDescendants
                      => view.wc_commit_ids[w] = before

C14_Witness ==
    /\ pc = "done"
    /\ ~legacy_bookmark_behavior
    /\ Rewritten(target_commit) = first_commit
    /\ view.wc_commit_ids[target_commit] = second_commit
    /\ TargetDescendants # {}
    /\ \E w \in WorkspaceIds :
          /\ w \notin {target_commit} \cup TargetDescendants
          /\ view.wc_commit_ids[w] = w

\* The orchestrator's record target -> second is in the rewrite records.
LegacyRecordRegistered ==
    /\ target_commit \in DOMAIN parent_mapping
    /\ parent_mapping[target_commit] = <<second_commit>>

\* C15: with the legacy behaviour on, the record target -> second is
\* registered once both new commits are written and is in place in every
\* state of the cascade, before its first descendant is visited, and after
\* the split every bookmark that pointed at the target points at the second
\* commit; with the behaviour off that record is never registered.
C15_LegacyBookmarks ==
    /\ LegacyRecordRegistered =>
          /\ first_commit # NoCommit
          /\ second_commit # NoCommit
          /\ legacy_bookmark_behavior
    /\ (legacy_bookmark_behavior /\ pc \in {"CascadeDescendants",
            "RedirectWorkingCopies", "Commit", "done"}) => LegacyRecordRegistered
    /\ (legacy_bookmark_behavior /\ pc = "done") =>
          \A b \in BookmarkNames :
              PreTransactionView.bookmarks[b] = target_commit
                  => view.bookmarks[b] = second_commit

C15_Witness ==
    /\ pc = "done"
    /\ legacy_bookmark_behavior
    /\ LegacyRecordRegistered
    /\ num_rebased > 0
    /\ PreTransactionView.bookmarks[target_commit] = target_commit
    /\ view.bookmarks[target_commit] = second_commit

\* How many times the editor was asked for the description of `which`.
PromptCount(which) == Cardinality({i \in 1 .. Len(prompts) : prompts[i] = which})

\* C16: the editor is asked for the second commit's description exactly when
\* the target's description is not empty, and otherwise the second commit is
\* written with the empty description; the first commit's description always
\* comes from the editor, which is asked for it once in every run that
\* builds the commits and never more than once.
C16_DescriptionPrompts ==
    /\ PromptCount("first") = (IF first_commit # NoCommit THEN 1 ELSE 0)
    /\ first_commit # NoCommit =>
          /\ prompts[1] = "first"
          /\ commits[first_commit].description \in EditorTexts
    /\ second_commit = NoCommit => PromptCount("second") = 0
    /\ second_commit # NoCommit =>
          IF commits[target_commit].description = ""
            THEN /\ PromptCount("second") = 0
                 /\ commits[second_commit].description = ""
            ELSE /\ prompts = <<"first", "second">>
                 /\ commits[second_commit].description \in EditorTexts

C16_Witness ==
    /\ pc = "done"
    /\ commits[target_commit].description = ""
    /\ prompts = <<"first">>
    /\ commits[second_commit].description = ""
    /\ commits[first_commit].description \in EditorTexts

\* cmd_split in the runs where no collaborator and no store operation fails
\* after the transaction has started.
NextWithoutFailure ==
    \/ ResolveTarget
    \/ ValidateRewritable
    \/ StartTransaction
    \/ SelectChanges
    \/ BuildFirstCommit
    \/ BuildSecondCommit
    \/ RegisterLegacyRewrite
    \/ RebaseDescendant
    \/ FinishCascade
    \/ RedirectWorkingCopies
    \/ Finish

SpecWithoutFailure == Init /\ [][NextWithoutFailure]_vars

\* The selector returned a tree that at some path is neither the base nor
\* the end content.
ConflictingSelection ==
    /\ tx_started
    /\ pc \notin {"StartTransaction", "SelectChanges"}
    /\ \E p \in Paths : selected_tree[p] \notin {base_tree[p], end_tree[p]}

\* The cascade wrote a descendant whose tree has a conflict.
ConflictedDescendant ==
    \E old \in Range(visited) : HasConflict(commits[Rewritten(old)].tree)

\* The complement of a parallel split holds a conflict at every path where
\* the selection is neither the base nor the end content of a change.
ComplementRecordsConflict ==
    ParallelSecondWritten =>
        \A p \in Paths :
            (selected_tree[p] \notin {base_tree[p], end_tree[p]}
                /\ base_tree[p] # end_tree[p])
            => ~IsResolved(commits[second_commit].tree[p])

\* C17: a conflict never stops a split.  A selection that is neither the
\* base nor the end content of a changed path makes the parallel complement
\* record a conflict there, as data of the tree; and when no collaborator
\* or store operation fails, a run with such a selection or with a rebased
\* descendant whose tree is conflicted returns no error and, once it is
\* over, has finished its transaction.
C17_ConflictsNeverBlock ==
    /\ ComplementRecordsConflict
    /\ (ConflictingSelection \/ ConflictedDescendant) =>
          /\ pc # "failed"
          /\ result = (IF pc = "done" THEN "ok" ELSE "none")
          /\ pc = "done" => view = tx_view

C17_Witness ==
    /\ pc = "done"
    /\ result = "ok"
    /\ args.parallel
    /\ ConflictingSelection
    /\ HasConflict(commits[second_commit].tree)
    /\ ConflictedDescendant

\* The last command has returned; `flag` names the one flag it was given.
Returned(flag) ==
    /\ colocate_pc = "idle"
    /\ history # <<>>
    /\ colocate_args = [enable |-> flag = "enable", disable |-> flag = "disable"]

\* C18: `colocate --enable` run on a git-backed workspace that is not
\* co-located and has no .git at its root ends, when it succeeds, with the
\* git repository at .git, nothing at .jj/repo/store/git, git_target holding
\* "../../../.git" and .jj/.gitignore holding "/*\n".
C18_EnableLayout ==
    (Returned("enable") /\ colocate_result = "ok" /\ ~is_colocated) =>
        /\ fs.dot_git = Dir(GitEntries)
        /\ ~fs.git_store.exists
        /\ fs.git_target = "../../../.git"
        /\ fs.jj_gitignore = "/*\n"
        /\ status = EnabledMessage

C18_Witness ==
    /\ Returned("enable")
    /\ colocate_result = "ok"
    /\ ~is_colocated
    /\ history = <<[args |-> colocate_args, result |-> "ok", status |-> EnabledMessage]>>
    /\ fs0 = RegularLayout("user\n")
    /\ fs = ColocatedLayout(JjGitignoreContent)

\* C19: `colocate --disable` run on a co-located workspace ends, when it
\* succeeds, with nothing at .git, the git repository at .jj/repo/store/git,
\* git_target holding "git" and no .jj/.gitignore.
C19_DisableLayout ==
    (Returned("disable") /\ colocate_result = "ok" /\ is_colocated) =>
        /\ ~fs.dot_git.exists
        /\ fs.git_store = Dir(GitEntries)
        /\ fs.git_target = "git"
        /\ fs.jj_gitignore = NoFile
        /\ status = DisabledMessage

C19_Witness ==
    /\ Returned("disable")
    /\ colocate_result = "ok"
    /\ is_colocated
    /\ history = <<[args |-> colocate_args, result |-> "ok", status |-> DisabledMessage]>>
    /\ fs0 = ColocatedLayout(JjGitignoreContent)
    /\ fs = RegularLayout(NoFile)

\* Every command run so far succeeded, on a workspace that was consistent.
AllSucceeded ==
    /\ fs0 \in ConsistentLayouts
    /\ \A i \in 1 .. Len(history) : history[i].result = "ok"

\* The git repository is in exactly one of its two places and git_target
\* names that place.
OneGitDirectory ==
    \/ /\ IsGitRepo(fs.dot_git)
       /\ ~fs.git_store.exists
       /\ fs.git_target = GitTargetColocated
    \/ /\ IsGitRepo(fs.git_store)
       /\ ~fs.dot_git.exists
       /\ fs.git_target = GitTargetEmbedded

\* Where the git repository is, what git_target names, whether it is bare.
GitLayout(f) == <<f.dot_git, f.git_store, f.git_target, f.core_bare>>

\* The history is a conversion to co-located and the conversion back, after
\* status commands only.
EnabledThenDisabled ==
    /\ Len(history) >= 2
    /\ \A i \in 1 .. Len(history) :
          /\ history[i].result = "ok"
          /\ history[i].status =
                (IF i = Len(history) THEN DisabledMessage
                 ELSE IF i = Len(history) - 1 THEN EnabledMessage
                 ELSE "Repository is currently not co-located with Git")

\* C20: after any sequence of successful enable, disable and status commands
\* on a workspace that was consistent, the git repository is in exactly one
\* of the two places and git_target names it; after an enable and the
\* disable that follows it the layout is the initial one again.
C20_LayoutStaysConsistent ==
    (colocate_pc = "idle" /\ AllSucceeded) =>
        /\ OneGitDirectory
        /\ EnabledThenDisabled => GitLayout(fs) = GitLayout(fs0)

C20_Witness ==
    /\ colocate_pc = "idle"
    /\ AllSucceeded
    /\ EnabledThenDisabled
    /\ fs0 = RegularLayout(NoFile)
    /\ fs = fs0

\* The command dispatched has nothing to convert: enable on a co-located
\* workspace, disable on one that is not, or no flag at all.
NothingToConvert ==
    \/ colocate_pc = "enable_repository_colocation" /\ is_colocated
    \/ colocate_pc = "disable_repository_colocation" /\ ~is_colocated
    \/ colocate_pc = "show_status"

\* What such a command writes to the ui.
NothingToConvertMessage ==
    CASE colocate_pc = "enable_repository_colocation" ->
            "Repository is already co-located with Git."
      [] colocate_pc = "disable_repository_colocation" ->
            "Repository is already not co-located with Git."
      [] OTHER ->
            IF is_colocated THEN "Repository is currently co-located with Git"
            ELSE "Repository is currently not co-located with Git"

AtPreconditions ==
    colocate_pc \in {"enable_repository_colocation", "disable_repository_colocation"}

\* A precondition of the conversion asked for does not hold.
PreconditionFails ==
    \/ /\ colocate_pc = "enable_repository_colocation"
       /\ ~is_colocated
       /\ fs.dot_git.exists \/ fs.jj_repo_is_file \/ ~fs.git_store.exists
    \/ /\ colocate_pc = "disable_repository_colocation"
       /\ is_colocated
       /\ ~fs.dot_git.exists \/ fs.git_store.exists

\* C22: every user error of colocate comes before any change on disk.  Both
\* flags together, and a failed precondition of enable or of disable, return
\* a user error; a user error is returned only by the flag validation or by
\* the precondition checks, which no write precedes, and the step that
\* returns it leaves git_target, .jj/.gitignore, the git directory and
\* core.bare as they were.
C22_UserErrorsBeforeMutation ==
    [][/\ (colocate_pc = "idle" /\ WorkspaceLoads(fs)
              /\ colocate_args'.enable /\ colocate_args'.disable)
             => (colocate_result' = "user_error" /\ colocate_pc' = "idle")
       /\ PreconditionFails
             => (colocate_result' = "user_error" /\ colocate_pc' = "idle")
       /\ (history' # history /\ colocate_result' = "user_error")
             => /\ colocate_pc = "idle" \/ AtPreconditions
                /\ fs' = fs
       /\ (colocate_pc = "idle" \/ AtPreconditions) => fs' = fs
      ]_<<vars, colocation>>

C22_Witness ==
    /\ Returned("enable")
    /\ colocate_result = "user_error"
    /\ history = <<[args |-> colocate_args, result |-> "user_error",
                    status |-> "A .git directory already exists in the workspace root."]>>
    /\ fs0.dot_git = Dir({"dummy"})
    /\ fs = fs0

\* What the failing I/O steps of a conversion report: the writes and the
\* removal of the files, the directory move, the git config calls.
IoFailureMessages ==
    {"Failed to create .jj/.gitignore file.",
     "Failed to create git_target file.",
     EnableMoveFailedMessage,
     "Failed to unset core.bare in git config.",
     "Failed to set core.bare in git config.",
     "Failed to move git repository to .jj/repo/store/git",
     "Failed to update git_target file.",
     "Failed to remove .jj/.gitignore file."}

\* Where the git directory is, what git_target holds, whether .jj/.gitignore
\* is there, and core.bare.
PersistedState(f) ==
    <<f.dot_git, f.git_store, f.git_target, f.jj_gitignore # NoFile, f.core_bare>>

\* C23: when an I/O step of the conversion fails, the command returns an
\* error and the git directory, git_target, the presence of .jj/.gitignore
\* and core.bare are as they were before the command.  Stated of the first
\* command run on a workspace.
C23_FailureLeavesStateUnaffected ==
    (colocate_pc = "idle" /\ Len(history) = 1 /\ status \in IoFailureMessages) =>
        /\ colocate_result = "error"
        /\ PersistedState(fs) = PersistedState(fs0)

\* move_directory is running, in its copy fallback.
InCopyFallback == colocate_pc \in {"copy_dir_recursive", "copy_entries"}

\* C24: when the move of enable fails and the removal of git_target that
\* follows fails too, so that the file is still there, what the command
\* reports says more than that the move failed.
C24_CleanupFailureReported ==
    [][(/\ colocate_args.enable
        /\ InCopyFallback
        /\ colocate_pc' = "idle"
        /\ fs'.git_target # NoFile)
          => /\ colocate_result' = "error"
             /\ status' # EnableMoveFailedMessage]_<<vars, colocation>>

\* move_directory is running.
InMoveDirectory == colocate_pc = "move_directory" \/ InCopyFallback

\* C25: move_directory never loses the git directory.  In every state of a
\* workspace that had one, all its entries are at the source or at the
\* destination; a step of the move changes the source only by the rename,
\* which puts it at the destination whole, or by the removal, once every
\* entry is at the destination; and a copy that fails returns an error and
\* leaves the source whole.
C25_MoveNeverLosesDirectory ==
    /\ [](IsGitRepo(fs0.dot_git) \/ IsGitRepo(fs0.git_store)
            => IsGitRepo(fs.dot_git) \/ IsGitRepo(fs.git_store))
    /\ [][InMoveDirectory =>
            /\ fs'[MoveFrom] # fs[MoveFrom] =>
                  /\ fs'[MoveTo].entries = fs[MoveFrom].entries
                  /\ colocate_pc = "move_directory" \/ ToCopy = {}
            /\ (InCopyFallback /\ colocate_pc' = "idle"
                   /\ fs[MoveFrom].entries # fs[MoveTo].entries)
                  => /\ colocate_result' = "error"
                     /\ fs'[MoveFrom] = fs[MoveFrom]
         ]_<<vars, colocation>>

\* A copy that failed half-way: the source is whole, the destination not.
C25_Witness ==
    /\ Returned("enable")
    /\ Len(history) = 1
    /\ colocate_result = "error"
    /\ status = EnableMoveFailedMessage
    /\ fs.git_store = Dir(GitEntries)
    /\ fs.dot_git = Dir({"refs"})

\* The commits the split replaced: the target and the commits that
\* descended from it before the split.
Replaced == {target_commit} \cup TargetDescendants

\* C26: after a successful split, whatever the flags, nothing live refers
\* to a replaced commit: no live commit has the target or a pre-rewrite
\* descendant among its parents, none of them is live or a head of the
\* View, and no working copy and no bookmark points to one of them.
C26_NothingRefersToReplaced ==
    pc = "done" =>
        /\ \A c \in Live(view) : Range(commits[c].parents) \cap Replaced = {}
        /\ {first_commit, second_commit} \subseteq Live(view)
        /\ \A d \in TargetDescendants : Rewritten(d) \in Live(view)
        /\ view.heads \cap Replaced = {}
        /\ Live(view) \cap Replaced = {}
        /\ \A w \in WorkspaceIds : view.wc_commit_ids[w] \notin Replaced
        /\ \A b \in BookmarkNames : view.bookmarks[b] \notin Replaced

\* A parallel split of a commit that had two descendants, one of them
\* checked out like the target itself.
C26_Witness ==
    /\ pc = "done"
    /\ args.parallel
    /\ Cardinality(TargetDescendants) = 2
    /\ Live(view) \cap Replaced = {}
    /\ \E d \in TargetDescendants :
          /\ PreTransactionView.wc_commit_ids[d] = d
          /\ view.wc_commit_ids[d] = Rewritten(d)
          /\ Range(commits[Rewritten(d)].parents) \cap Replaced = {}

====
